---- MODULE Spec2Model ----
(***************************************************************************)
(* Model of src/server.js: the games REST API (create / join) backed by    *)
(* the Game collection, and the socket.io chat relay (join_room,           *)
(* leave_room, chat_message, disconnect) backed by the Message collection. *)
(* Every `await` of a handler is a point where other handlers may run, so  *)
(* each handler is split into one action per stretch of synchronous code.  *)
(***************************************************************************)
EXTENDS Integers, Sequences, FiniteSets, TLC

\* ------------------------------------------------------------------ bounds
MaxReqs == 2         \* join-game requests that may be issued
MaxMsgs == 2         \* chat_message events that may be handled

\* --------------------------------------------------------- program values
DefaultMaxPlayers == 6                  \* maxPlayers: 6
HistoryLimit == 50                      \* .limit(50)

Absent == << >>                         \* a field the request body does not carry

GameIds == {1}                          \* well-formed ObjectIds, in creation order
MalformedId == 0                        \* an :id that is no ObjectId ("abc")
JoinIds == GameIds \cup {MalformedId}   \* what a caller may put in the URL
Reqs == 1..MaxReqs
Clients == {1, 2}                       \* sockets that may connect
Rooms == {"r1"}
EmptyRoom == ""                         \* a falsy room
Msgs == 1..MaxMsgs

\* const allowedOrigins = [...]
AllowedOrigins == {"http://localhost:5173", "https://game1-frontend.vercel.app"}
NoOrigin == ""                          \* a request without an Origin header
\* req.headers.origin as the caller may send it
OriginInputs == {NoOrigin, "http://localhost:5173", "https://evil.example"}

\* req.body.players as the caller may send it
PlayersInputs == {Absent, <<-1>>, <<5>>, <<7>>}
\* the room argument of join_room / leave_room, and msg.room
RoomInputs == Rooms \cup {EmptyRoom}
\* msg.createdAt as a client may send it (the server's clock starts at 1)
DateInputs == {Absent, <<0>>}

VARIABLES
  games,        \* Game collection: stored id -> [players, maxPlayers]
  initial,      \* history: the players value each game was created with
  join,         \* HTTP requests: r -> [pc, origin, id, players, maxPlayers, res,
                \*   cause, saved, emits, to]; emits/to record its update_game events
  sock,         \* socket state: c -> "new" | "open" | "closed"
  member,       \* socket.rooms: c -> set of rooms
  messages,     \* Message collection, in insertion order: [id, room, createdAt]
  clock,        \* Date.now(): read when a message is built, later at each reading
  send,         \* chat_message events: s -> [pc, from, msg, now, doc]: the payload
                \*   received, Date.now() at that moment, the document built
  jr,           \* join_room handler of each socket: c -> [pc, room, snap]; room is
                \*   the argument of the socket's latest join_room event
  loaded,       \* the load_messages event last delivered to each socket
  live          \* chat_message events delivered to each socket, in order

gameVars == <<games, initial, join>>
chatVars == <<messages, clock, send, jr, loaded, live>>
vars == <<games, initial, join, sock, member, messages, clock, send, jr, loaded, live>>

connected == {c \in Clients : sock[c] = "open"}

\* ------------------------------------------------------------ pure helpers
\* Number(players) || 0
NumberOrZero(p) == IF p = Absent THEN 0 ELSE p[1]

\* new Game({..., players: Number(players) || 0, maxPlayers: 6})
NewGame(p) == [players |-> NumberOrZero(p), maxPlayers |-> DefaultMaxPlayers]

\* Game.findById(id): a cast error for a malformed id, else the document or null
NoDoc == [players |-> 0, maxPlayers |-> 0]
FindById(id) ==
  IF id = MalformedId THEN [status |-> "throw", doc |-> NoDoc]
  ELSE IF id \notin DOMAIN games THEN [status |-> "null", doc |-> NoDoc]
  ELSE [status |-> "found", doc |-> games[id]]

IsFullStrict(doc) == doc.players > doc.maxPlayers
\* game.players >= game.maxPlayers
IsFull(doc) == doc.players >= doc.maxPlayers

UpdateRecipientsInRooms == {c \in connected : member[c] # {}}
\* io.emit(...): every connected socket of the namespace
UpdateRecipients == connected

CorsAllowsAll(origin) == TRUE
\* corsOptions.origin: callback(null, true) if (!origin || allowedOrigins.includes(origin)),
\* else callback(new Error(...)), which makes cors call next(err)
CorsAllows(origin) == origin = NoOrigin \/ origin \in AllowedOrigins

IdleReq == [pc |-> "idle", origin |-> NoOrigin,
            id |-> MalformedId, players |-> 0, maxPlayers |-> 0,
            res |-> "none", cause |-> "none", saved |-> FALSE,
            emits |-> 0, to |-> {}]

FalsyNever(room) == FALSE
\* !room, !msg?.room
Falsy(room) == room = EmptyRoom

\* new Message(msg): the payload's own createdAt wins over the Date.now default
NewMessage(id, payload, now) ==
  [id |-> id, room |-> payload.room,
   createdAt |-> IF payload.createdAt = Absent THEN now ELSE payload.createdAt[1]]

RoomRecipientsButSender(room, from) == {c \in Clients : room \in member[c]} \ {from}
\* io.to(room): every socket in the room, the sender's included
RoomRecipients(room, from) == {c \in Clients : room \in member[c]}

DeliverSenderFirst(c, from, q, m) == IF c = from THEN <<m>> \o q ELSE Append(q, m)
\* an emit to one socket: the packet goes to the end of its ordered stream
Deliver(c, from, q, m) == Append(q, m)

AfterSaveAlwaysEmit(ok) == "emit"
\* await newMsg.save() in the try block: a rejection skips the emit
AfterSave(ok) == IF ok THEN "emit" ELSE "done"

\* .sort({ createdAt: 1 }): ascending, equal keys kept in insertion order
SortByCreatedAt(q) ==
  LET Before(i, j) ==
        \/ q[i].createdAt < q[j].createdAt
        \/ q[i].createdAt = q[j].createdAt /\ i < j
      Rank(j) == Cardinality({i \in DOMAIN q : Before(i, j)}) + 1
  IN [p \in DOMAIN q |-> q[CHOOSE j \in DOMAIN q : Rank(j) = p]]

\* .limit(n)
Limit(q, n) == SubSeq(q, 1, IF Len(q) < n THEN Len(q) ELSE n)

\* Message.find({ room }).sort({ createdAt: 1 }).limit(50)
FindMessages(room) ==
  Limit(SortByCreatedAt(SelectSeq(messages, LAMBDA m : m.room = room)), HistoryLimit)

NoMsg == [id |-> 0, room |-> EmptyRoom, createdAt |-> 0]
NoPayload == [room |-> EmptyRoom, createdAt |-> Absent]
IdleSend == [pc |-> "idle", from |-> 0, msg |-> NoPayload, now |-> 0, doc |-> NoMsg]
\* was: whether socket.rooms held the room when the pending join_room arrived
IdleJoinRoom == [pc |-> "idle", room |-> EmptyRoom, was |-> FALSE, snap |-> << >>]

Range(q) == {q[i] : i \in DOMAIN q}

\* -------------------------------------------------------------------- Init
Init ==
  /\ games = << >>
  /\ initial = [g \in GameIds |-> 0]
  /\ join = [r \in Reqs |-> IdleReq]
  /\ sock = [c \in Clients |-> "new"]
  /\ member = [c \in Clients |-> {}]
  /\ messages = << >>
  /\ clock = 1
  /\ send = [s \in Msgs |-> IdleSend]
  /\ jr = [c \in Clients |-> IdleJoinRoom]
  /\ loaded = [c \in Clients |-> << >>]
  /\ live = [c \in Clients |-> << >>]

\* ------------------------------------------------------------- connections
\* io.on("connection")
Connect(c) ==
  /\ sock[c] = "new"
  /\ sock' = [sock EXCEPT ![c] = "open"]
  /\ UNCHANGED <<gameVars, member, chatVars>>

DisconnectKeepRooms(c) ==
  /\ sock[c] = "open"
  /\ sock' = [sock EXCEPT ![c] = "closed"]
  /\ UNCHANGED <<gameVars, member, chatVars>>

\* socket.on("disconnect"): socket.io has already emptied socket.rooms
Disconnect(c) ==
  /\ sock[c] = "open"
  /\ sock' = [sock EXCEPT ![c] = "closed"]
  /\ member' = [member EXCEPT ![c] = {}]
  /\ UNCHANGED <<gameVars, chatVars>>

\* ------------------------------------------------------- POST /api/games
\* The handler builds the document and awaits save(); the insert either
\* lands under the next free id or fails (500, nothing stored).
CreateGame(p, ok) ==
  /\ \E g \in GameIds :
       /\ g = Len(games) + 1
       /\ IF ok
            THEN /\ games' = Append(games, NewGame(p))
                 /\ initial' = [initial EXCEPT ![g] = NewGame(p).players]
            ELSE UNCHANGED <<games, initial>>
  /\ UNCHANGED <<join, sock, member, chatVars>>

\* --------------------------------------------------- PUT /api/games/:id/join
\* The request arrives and Game.findById(id) is issued.  Requests are
\* numbered in order of arrival.
JoinStart(r, id) ==
  /\ join[r].pc = "idle"
  /\ \A q \in Reqs : q < r => join[q].pc # "idle"
  /\ join' = [join EXCEPT ![r].pc = "find", ![r].id = id]
  /\ UNCHANGED <<games, initial, sock, member, chatVars>>

\* findById completes and the handler runs to its next await or response.
JoinFind(r, ok) ==
  /\ join[r].pc = "find"
  /\ LET found == FindById(join[r].id) IN
       IF ~ok
         THEN join' = [join EXCEPT ![r].pc = "done", ![r].res = "error",
                                   ![r].cause = "store"]
       ELSE IF found.status = "throw"
         THEN join' = [join EXCEPT ![r].pc = "done", ![r].res = "error",
                                   ![r].cause = "cast"]
       ELSE IF found.status = "null"
         THEN join' = [join EXCEPT ![r].pc = "done", ![r].res = "notfound"]
       ELSE IF IsFull(found.doc)
         THEN join' = [join EXCEPT ![r].pc = "done", ![r].res = "full",
                                   ![r].players = found.doc.players,
                                   ![r].maxPlayers = found.doc.maxPlayers]
       ELSE join' = [join EXCEPT ![r].pc = "save",
                                 ![r].players = found.doc.players + 1,
                                 ![r].maxPlayers = found.doc.maxPlayers]
  /\ UNCHANGED <<games, initial, sock, member, chatVars>>

\* game.save(): the store sets players to the value the handler computed,
\* or the write fails and the catch answers 500.
JoinSave(r, ok) ==
  /\ join[r].pc = "save"
  /\ IF ok
       THEN /\ games' = [games EXCEPT ![join[r].id].players = join[r].players]
            /\ join' = [join EXCEPT ![r].pc = "emit", ![r].saved = TRUE]
       ELSE /\ join' = [join EXCEPT ![r].pc = "done", ![r].res = "error",
                                    ![r].cause = "store"]
            /\ UNCHANGED games
  /\ UNCHANGED <<initial, sock, member, chatVars>>

\* io.emit("update_game", game); res.json(game)
JoinEmit(r) ==
  /\ join[r].pc = "emit"
  /\ join' = [join EXCEPT ![r].pc = "done", ![r].res = "ok",
                          ![r].emits = @ + 1, ![r].to = UpdateRecipients]
  /\ UNCHANGED <<games, initial, sock, member, chatVars>>

\* ------------------------------------------------- app.use(cors(corsOptions))
\* The cors middleware is registered before every route.  A request it turns
\* down goes to the error handler and no route runs; one it lets through
\* reaches its route, here PUT /api/games/:id/join up to its first await.
HttpJoinStart(o, r, id) ==
  /\ join[r].pc = "idle"
  /\ \A q \in Reqs : q < r => join[q].pc # "idle"
  /\ join' = IF CorsAllows(o)
               THEN [join EXCEPT ![r].pc = "find", ![r].origin = o, ![r].id = id]
               ELSE [join EXCEPT ![r].pc = "done", ![r].origin = o, ![r].id = id,
                                 ![r].res = "cors"]
  /\ UNCHANGED <<games, initial, sock, member, chatVars>>

\* The same for POST /api/games, the insert included.
HttpCreateGame(o, r, p, ok) ==
  /\ join[r].pc = "idle"
  /\ \A q \in Reqs : q < r => join[q].pc # "idle"
  /\ \E g \in GameIds :
       /\ g = Len(games) + 1
       /\ IF ~CorsAllows(o)
            THEN /\ join' = [join EXCEPT ![r].pc = "done", ![r].origin = o,
                                         ![r].res = "cors"]
                 /\ UNCHANGED <<games, initial>>
            ELSE IF ok
            THEN /\ join' = [join EXCEPT ![r].pc = "done", ![r].origin = o,
                                         ![r].res = "created", ![r].saved = TRUE]
                 /\ games' = Append(games, NewGame(p))
                 /\ initial' = [initial EXCEPT ![g] = NewGame(p).players]
            ELSE /\ join' = [join EXCEPT ![r].pc = "done", ![r].origin = o,
                                         ![r].res = "error", ![r].cause = "store"]
                 /\ UNCHANGED <<games, initial>>
  /\ UNCHANGED <<sock, member, chatVars>>

\* ------------------------------------------------------ socket "join_room"
\* if (!room) return; socket.join(room); Message.find(...) is issued.
JoinRoom(c, room) ==
  /\ sock[c] = "open"
  /\ jr[c].pc = "idle"
  /\ IF Falsy(room)
       THEN /\ jr' = [jr EXCEPT ![c].room = room]
            /\ UNCHANGED member
       ELSE /\ member' = [member EXCEPT ![c] = @ \cup {room}]
            /\ jr' = [jr EXCEPT ![c].pc = "find", ![c].room = room,
                                ![c].was = room \in member[c]]
  /\ UNCHANGED <<gameVars, sock, messages, clock, send, loaded, live>>

\* The store runs the query (or fails: the catch logs and the handler ends).
JoinRoomFind(c, ok) ==
  /\ jr[c].pc = "find"
  /\ IF ok
       THEN jr' = [jr EXCEPT ![c].pc = "emit", ![c].was = FALSE,
                             ![c].snap = FindMessages(jr[c].room)]
       ELSE jr' = [jr EXCEPT ![c].pc = "idle", ![c].was = FALSE]
  /\ UNCHANGED <<gameVars, sock, member, messages, clock, send, loaded, live>>

\* socket.emit("load_messages", messages): to this socket only, if still open
JoinRoomEmit(c) ==
  /\ jr[c].pc = "emit"
  /\ jr' = [jr EXCEPT ![c].pc = "idle", ![c].snap = << >>]
  /\ IF sock[c] = "open"
       THEN loaded' = [loaded EXCEPT ![c] = jr[c].snap]
       ELSE UNCHANGED loaded
  /\ UNCHANGED <<gameVars, sock, member, messages, clock, send, live>>

\* ----------------------------------------------------- socket "leave_room"
LeaveRoom(c, room) ==
  /\ sock[c] = "open"
  /\ member' = [member EXCEPT ![c] = @ \ {room}]
  /\ UNCHANGED <<gameVars, sock, chatVars>>

\* --------------------------------------------------- socket "chat_message"
\* if (!msg?.room) return; new Message(msg); save() is issued.  Events are
\* numbered in order of arrival; s stands for the generated _id.
ChatMessage(c, s, payload) ==
  /\ sock[c] = "open"
  /\ send[s].pc = "idle"
  /\ \A t \in Msgs : t < s => send[t].pc # "idle"
  /\ IF Falsy(payload.room)
       THEN /\ send' = [send EXCEPT ![s] = [pc |-> "done", from |-> c, msg |-> payload,
                                            now |-> clock, doc |-> NoMsg]]
            /\ UNCHANGED clock
       ELSE /\ send' = [send EXCEPT ![s] = [pc |-> "save", from |-> c, msg |-> payload,
                                            now |-> clock,
                                            doc |-> NewMessage(s, payload, clock)]]
            /\ clock' = clock + 1
  /\ UNCHANGED <<gameVars, sock, member, messages, jr, loaded, live>>

SendPersistIfOpen(s, ok) ==
  /\ send[s].pc = "save"
  /\ sock[send[s].from] = "open"
  /\ messages' = IF ok THEN Append(messages, send[s].doc) ELSE messages
  /\ send' = [send EXCEPT ![s].pc = AfterSave(ok)]
  /\ UNCHANGED <<gameVars, sock, member, clock, jr, loaded, live>>

\* The store runs the insert, or rejects it; the handler's promise is not
\* tied to the socket, so this happens whether or not the sender is still open.
SendPersist(s, ok) ==
  /\ send[s].pc = "save"
  /\ messages' = IF ok THEN Append(messages, send[s].doc) ELSE messages
  /\ send' = [send EXCEPT ![s].pc = AfterSave(ok)]
  /\ UNCHANGED <<gameVars, sock, member, clock, jr, loaded, live>>

\* io.to(msg.room).emit("chat_message", newMsg)
SendBroadcast(s) ==
  /\ send[s].pc = "emit"
  /\ live' = [c \in Clients |->
                IF c \in RoomRecipients(send[s].doc.room, send[s].from)
                  THEN Deliver(c, send[s].from, live[c], send[s].doc)
                  ELSE live[c]]
  /\ send' = [send EXCEPT ![s].pc = "done"]
  /\ UNCHANGED <<gameVars, sock, member, messages, clock, jr, loaded>>

\* ============================================================== properties
Succeeded(g) == {r \in Reqs : join[r].id = g /\ join[r].res = "ok"}
Persisted(m) == m \in Range(messages)
Pos(q, m) == CHOOSE i \in DOMAIN q : q[i] = m

\* C1: every stored Game satisfies 0 <= players <= maxPlayers.
C1_PlayersInRange ==
  \A g \in DOMAIN games :
    0 <= games[g].players /\ games[g].players <= games[g].maxPlayers

\* C2: for a game created with 0 <= initialPlayers <= maxPlayers, the number of
\* join requests that returned success never exceeds maxPlayers - initialPlayers.
C2_SuccessesBounded ==
  \A g \in DOMAIN games :
    (0 <= initial[g] /\ initial[g] <= games[g].maxPlayers)
      => Cardinality(Succeeded(g)) <= games[g].maxPlayers - initial[g]

\* C3: once a join request has succeeded returning players = maxPlayers, no
\* other join request for that game returns success afterwards.
C3_FillingJoinIsLast ==
  [][\A r \in Reqs :
       (join[r].res = "ok" /\ join[r].players = join[r].maxPlayers)
         => \A q \in Reqs :
              (join[q].id = join[r].id /\ join'[q].res = "ok") => join[q].res = "ok"]_vars

\* C4: a finished join request whose id references no stored Game, and whose
\* lookup the store answered, returned NotFound and emitted no update_game.
C4_AbsentIsNotFound ==
  \A r \in Reqs :
    (join[r].pc = "done" /\ join[r].id \notin DOMAIN games /\ join[r].cause # "store")
      => (join[r].res = "notfound" /\ join[r].emits = 0)

\* C5: a join request whose lookup reads a game with players >= maxPlayers
\* returns CapacityExceeded in that step, which leaves the Game collection
\* unchanged; a request that returned CapacityExceeded is finished and has
\* emitted no update_game.
C5_FullIsRejected ==
  /\ [][\A r \in Reqs :
          (/\ join[r].pc = "find"
           /\ join'[r].pc # "find"
           /\ join'[r].cause # "store"
           /\ join[r].id \in DOMAIN games
           /\ games[join[r].id].players >= games[join[r].id].maxPlayers)
            => (join'[r].res = "full" /\ games' = games /\ join'[r].emits = 0)]_vars
  /\ [](\A r \in Reqs :
          join[r].res = "full" => (join[r].pc = "done" /\ join[r].emits = 0))

C5_Witness ==
  \E r \in Reqs :
    /\ join[r].res = "full"
    /\ join[r].id \in DOMAIN games
    /\ join[r].players >= join[r].maxPlayers

\* C6: a join request has emitted update_game exactly once if it succeeded and
\* never otherwise; the emit happens after the request's update was persisted
\* and reaches every socket connected at that moment, in a room or not.
C6_UpdateGameOnSuccess ==
  /\ [][\A r \in Reqs :
          join'[r].emits # join[r].emits
            => (/\ join'[r].emits = join[r].emits + 1
                /\ join[r].saved
                /\ join'[r].res = "ok"
                /\ join'[r].to = connected)]_vars
  /\ [](\A r \in Reqs : join[r].emits = IF join[r].res = "ok" THEN 1 ELSE 0)

C6_Witness ==
  \E r \in Reqs :
    /\ join[r].res = "ok"
    /\ join[r].emits = 1
    /\ \E c, d \in join[r].to : member[c] = {} /\ member[d] # {}

\* C7: the broadcast of a persisted message adds exactly that chat_message to
\* the stream of every socket that is in the message's room at that moment,
\* the sender's included, and leaves every other socket's stream unchanged;
\* only messages with a non-empty room are ever persisted or broadcast.
C7_BroadcastToRoom ==
  [][\A s \in Msgs :
       (send[s].pc = "emit" /\ send'[s].pc = "done")
         => /\ ~Falsy(send[s].doc.room)
            /\ \A c \in Clients :
                 IF send[s].doc.room \in member[c]
                   THEN /\ Len(live'[c]) = Len(live[c]) + 1
                        /\ send[s].doc \in Range(live'[c])
                        /\ Range(live[c]) \subseteq Range(live'[c])
                   ELSE live'[c] = live[c]]_vars

C7_Witness ==
  \E s \in Msgs :
    /\ send[s].pc = "done"
    /\ Persisted(send[s].doc)
    /\ send[s].doc \in Range(live[send[s].from])
    /\ \E c \in connected : send[s].doc \notin Range(live[c])

\* C8: every chat_message delivered live to any socket is a message present
\* in the Message collection.
C8_LiveIsPersisted ==
  \A c \in Clients : \A m \in Range(live[c]) : Persisted(m)

C8_Witness ==
  /\ \E s \in Msgs : /\ send[s].pc = "done" /\ ~Falsy(send[s].msg.room)
                      /\ ~Persisted(send[s].doc)
  /\ \E c \in Clients : live[c] # << >>

\* C9: two sockets that both received the same two messages live received
\* them in the same relative order.
C9_SameLiveOrder ==
  \A c, d \in Clients :
    \A a, b \in Range(live[c]) \cap Range(live[d]) :
      (Pos(live[c], a) < Pos(live[c], b)) <=> (Pos(live[d], a) < Pos(live[d], b))

C9_Witness ==
  \E c, d \in Clients :
    /\ c # d
    /\ Cardinality(Range(live[c]) \cap Range(live[d])) >= 2
    /\ \E s, t \in Msgs : s # t /\ send[s].from # send[t].from
                          /\ send[s].doc \in Range(live[c])
                          /\ send[t].doc \in Range(live[c])

\* C10: no broadcast delivers live to a socket a message that is already in
\* the load_messages history that socket was sent for its join_room.
C10_NoDuplicate ==
  [][\A s \in Msgs :
       (send[s].pc = "emit" /\ send'[s].pc = "done")
         => \A c \in Clients :
              live'[c] # live[c] => send[s].doc \notin Range(loaded[c])]_vars

\* C12: a socket that is not open is in no room and is delivered nothing
\* (no chat_message, no load_messages); a chat_message reaches a socket only
\* in the broadcast of a message whose room the socket is in at that moment,
\* so none reaches it for a room it has left and not joined again.
C12_NoDeliveryAfterLeave ==
  /\ [](\A c \in Clients : sock[c] # "open" => member[c] = {})
  /\ [][\A c \in Clients :
          /\ sock[c] # "open" => (live'[c] = live[c] /\ loaded'[c] = loaded[c])
          /\ live'[c] # live[c]
               => \E s \in Msgs : /\ send[s].pc = "emit" /\ send'[s].pc = "done"
                                  /\ send[s].doc.room \in member[c]
                                  /\ live'[c] = Append(live[c], send[s].doc)]_vars

C12_Witness ==
  \E c, d \in Clients : \E s \in Msgs :
    /\ sock[c] = "closed"
    /\ live[c] # << >>
    /\ send[s].pc = "done"
    /\ send[s].doc \in Range(live[d])
    /\ send[s].doc \notin Range(live[c])

\* C13: a join_room or chat_message event with an empty room changes nothing
\* but the record of the event itself (membership, the Message collection,
\* every socket's deliveries and every other handler stay as they were), and
\* no room set, stored, pending or delivered message carries the empty room.
C13_EmptyRoomIgnored ==
  /\ [][/\ \A c \in Clients :
            (jr'[c] # jr[c] /\ jr[c].pc = "idle" /\ Falsy(jr'[c].room))
              => /\ jr'[c] = [jr[c] EXCEPT !.room = EmptyRoom]
                 /\ \A d \in Clients \ {c} : jr'[d] = jr[d]
                 /\ UNCHANGED <<gameVars, sock, member, messages, clock, send,
                                loaded, live>>
        /\ \A s \in Msgs :
            (send[s].pc = "idle" /\ send'[s].pc # "idle" /\ Falsy(send'[s].msg.room))
              => /\ send'[s].pc = "done"
                 /\ \A t \in Msgs \ {s} : send'[t] = send[t]
                 /\ UNCHANGED <<gameVars, sock, member, messages, clock, jr,
                                loaded, live>>]_vars
  /\ [](/\ \A m \in Range(messages) : ~Falsy(m.room)
        /\ \A c \in Clients :
             /\ EmptyRoom \notin member[c]
             /\ \A m \in Range(live[c]) \cup Range(loaded[c]) : ~Falsy(m.room)
        /\ \A s \in Msgs : send[s].pc \in {"save", "emit"} => ~Falsy(send[s].doc.room))

C13_Witness ==
  /\ \E c \in Clients : member[c] # {} /\ jr[c].pc = "idle" /\ Falsy(jr[c].room)
  /\ \E s \in Msgs : send[s].pc = "done" /\ Falsy(send[s].msg.room)
  /\ messages # << >>

\* C14: every message stored or delivered live is the document of a
\* chat_message event, with the room the client sent, the id the server
\* generated and the server's clock reading as its creation timestamp.
C14_ServerAssigned ==
  \A m \in Range(messages) \cup UNION {Range(live[c]) : c \in Clients} :
    \E s \in Msgs :
      /\ m = send[s].doc
      /\ m.id = s
      /\ m.room = send[s].msg.room
      /\ m.createdAt = send[s].now

\* C15: a game created by a create-game request has maxPlayers = 6 and was
\* stored with players = 0 (the handler never reads a maxPlayers from the body,
\* so every request counts as giving none).
C15_CreatedEmpty ==
  \A g \in DOMAIN games :
    initial[g] = 0 /\ games[g].maxPlayers = DefaultMaxPlayers

\* C17: once no join request is in flight, players = initialPlayers + the
\* number of join requests that returned success, and no two successful
\* requests for the same game returned the same players value.
C17_NoLostUpdate ==
  \A g \in DOMAIN games :
    /\ (\A r \in Reqs : join[r].pc \in {"idle", "done"})
         => games[g].players = initial[g] + Cardinality(Succeeded(g))
    /\ \A r1, r2 \in Succeeded(g) :
         r1 # r2 => join[r1].players # join[r2].players

\* C18: if a socket received a before b live, both of one room and both
\* persisted, then a comes before b in the history query of that room.
C18_LiveAgreesWithHistory ==
  \A c \in Clients : \A i, j \in DOMAIN live[c] :
    LET a == live[c][i]
        b == live[c][j]
        h == FindMessages(a.room)
    IN (i < j /\ a.room = b.room /\ a \in Range(h) /\ b \in Range(h))
         => Pos(h, a) < Pos(h, b)

\* C19: a failed history query or a failed save leaves every socket connected
\* and every membership set as it was, stores and delivers nothing, and leaves
\* the relay as if the failed event had not been issued: the socket whose
\* join_room failed is in that room only if it was in it before the event.
C19_FailureDropsOperation ==
  [][/\ \A c \in Clients :
          (jr[c].pc = "find" /\ jr'[c].pc = "idle")
            => /\ UNCHANGED <<sock, member, messages, loaded, live>>
               /\ jr[c].room \in member'[c] => jr[c].was
     /\ \A s \in Msgs :
          (send[s].pc = "save" /\ send'[s].pc = "done")
            => UNCHANGED <<sock, member, messages, loaded, live>>]_vars

\* C20: when the sender has disconnected while its save is pending, the save
\* can still complete, the saved message is stored and its broadcast follows,
\* appending it to the stream of every socket in the room at that moment, and
\* no closed socket receives anything.
C20_DisconnectMidSend ==
  /\ [](\A s \in Msgs :
         (send[s].pc \in {"save", "emit"} /\ sock[send[s].from] = "closed")
           => /\ send[s].pc = "save" => ENABLED SendPersist(s, TRUE)
              /\ send[s].pc = "emit"
                   => Persisted(send[s].doc) /\ ENABLED SendBroadcast(s))
  /\ [][\A s \in Msgs :
          (send[s].pc = "emit" /\ send'[s].pc = "done"
             /\ sock[send[s].from] = "closed")
            => \A c \in Clients :
                 /\ send[s].doc.room \in member[c]
                      => live'[c] = Append(live[c], send[s].doc)
                 /\ sock[c] # "open"
                      => live'[c] = live[c] /\ loaded'[c] = loaded[c]]_vars

C20_Witness ==
  \E s \in Msgs : \E d \in Clients :
    /\ send[s].pc = "done"
    /\ sock[send[s].from] = "closed"
    /\ Persisted(send[s].doc)
    /\ d # send[s].from
    /\ sock[d] = "open"
    /\ send[s].doc \in Range(live[d])
    /\ send[s].doc \notin Range(live[send[s].from])
    /\ \A t \in Msgs \ {s} : send[t].pc = "idle"

\* C16: an HTTP request carrying an Origin that is not on the allow-list ends
\* at the cors middleware: its arrival step is its last, no route code runs
\* for it (no query is issued, nothing is stored, no update_game is emitted)
\* and every other request, the Game collection and the sockets stay as they
\* were.
C16_UnlistedOriginRejected ==
  /\ [][\A r \in Reqs :
          (join[r].pc = "idle" /\ join'[r].pc # "idle"
             /\ join'[r].origin # NoOrigin /\ join'[r].origin \notin AllowedOrigins)
            => /\ join'[r].pc = "done"
               /\ join'[r].res = "cors"
               /\ \A q \in Reqs \ {r} : join'[q] = join[q]
               /\ UNCHANGED <<games, initial, sock, member, chatVars>>]_vars
  /\ [](\A r \in Reqs :
         (join[r].origin # NoOrigin /\ join[r].origin \notin AllowedOrigins)
           => /\ join[r].pc = "done"
              /\ join[r].res = "cors"
              /\ ~join[r].saved
              /\ join[r].emits = 0)

C16_Witness ==
  /\ connected # {}
  /\ games # << >>
  /\ \E r \in Reqs : join[r].res = "cors" /\ join[r].id \in DOMAIN games

\* C11: the history query of a join_room returns the HistoryLimit most recent
\* persisted messages of the room (all of them when there are fewer), oldest
\* first by createdAt, and its load_messages goes to the joining socket only.
MostRecent(q, n) == SubSeq(q, IF Len(q) < n THEN 1 ELSE Len(q) - n + 1, Len(q))
RoomMessages(room) == SelectSeq(messages, LAMBDA m : m.room = room)
C11_RecentHistory ==
  [][\A c \in Clients :
       /\ (jr[c].pc = "find" /\ jr'[c].pc = "emit")
            => jr'[c].snap = MostRecent(SortByCreatedAt(RoomMessages(jr[c].room)),
                                        HistoryLimit)
       /\ (jr[c].pc = "emit" /\ jr'[c].pc = "idle")
            => \A d \in Clients \ {c} : loaded'[d] = loaded[d]]_vars

\* ------------------------------------------------------------------- specs
NextGame ==
  \/ \E c \in Clients : Connect(c)
  \/ \E c \in Clients : Disconnect(c)
  \/ \E c \in Clients, room \in RoomInputs : JoinRoom(c, room)
  \/ \E c \in Clients, ok \in BOOLEAN : JoinRoomFind(c, ok)
  \/ \E c \in Clients : JoinRoomEmit(c)
  \/ \E c \in Clients, room \in RoomInputs : LeaveRoom(c, room)
  \/ \E p \in PlayersInputs, ok \in BOOLEAN : CreateGame(p, ok)
  \/ \E r \in Reqs, id \in JoinIds : JoinStart(r, id)
  \/ \E r \in Reqs, ok \in BOOLEAN : JoinFind(r, ok)
  \/ \E r \in Reqs, ok \in BOOLEAN : JoinSave(r, ok)
  \/ \E r \in Reqs : JoinEmit(r)

NextChat ==
  \/ \E c \in Clients : Connect(c)
  \/ \E c \in Clients : Disconnect(c)
  \/ \E c \in Clients, room \in RoomInputs : JoinRoom(c, room)
  \/ \E c \in Clients, ok \in BOOLEAN : JoinRoomFind(c, ok)
  \/ \E c \in Clients : JoinRoomEmit(c)
  \/ \E c \in Clients, room \in RoomInputs : LeaveRoom(c, room)
  \/ \E c \in Clients, s \in Msgs, room \in RoomInputs :
       ChatMessage(c, s, [room |-> room, createdAt |-> Absent])
  \/ \E s \in Msgs, ok \in BOOLEAN : SendPersist(s, ok)
  \/ \E s \in Msgs : SendBroadcast(s)

\* A room that already holds one message more than the history limit: the
\* chat_message handlers that stored them have all completed.
StoredHistory ==
  [i \in 1..(HistoryLimit + 1) |-> [id |-> i, room |-> "r1", createdAt |-> i]]

InitHistory ==
  /\ games = << >>
  /\ initial = [g \in GameIds |-> 0]
  /\ join = [r \in Reqs |-> IdleReq]
  /\ sock = [c \in Clients |-> "new"]
  /\ member = [c \in Clients |-> {}]
  /\ messages = StoredHistory
  /\ clock = Len(StoredHistory) + 1
  /\ send = [s \in Msgs |-> IdleSend]
  /\ jr = [c \in Clients |-> IdleJoinRoom]
  /\ loaded = [c \in Clients |-> << >>]
  /\ live = [c \in Clients |-> << >>]

NextHistory ==
  \/ \E c \in Clients : Connect(c)
  \/ \E c \in Clients : Disconnect(c)
  \/ \E c \in Clients, room \in RoomInputs : JoinRoom(c, room)
  \/ \E c \in Clients, ok \in BOOLEAN : JoinRoomFind(c, ok)
  \/ \E c \in Clients : JoinRoomEmit(c)
  \/ \E c \in Clients, room \in RoomInputs : LeaveRoom(c, room)

\* chat_message payloads that also carry a createdAt of the client's choosing
NextChatDates ==
  \/ \E c \in Clients : Connect(c)
  \/ \E c \in Clients, room \in Rooms : JoinRoom(c, room)
  \/ \E c \in Clients, ok \in BOOLEAN : JoinRoomFind(c, ok)
  \/ \E c \in Clients : JoinRoomEmit(c)
  \/ \E c \in Clients, s \in Msgs, room \in Rooms, d \in DateInputs :
       ChatMessage(c, s, [room |-> room, createdAt |-> d])
  \/ \E s \in Msgs, ok \in BOOLEAN : SendPersist(s, ok)
  \/ \E s \in Msgs : SendBroadcast(s)

\* HTTP requests with their Origin header, through the cors middleware
NextCors ==
  \/ \E c \in Clients : Connect(c)
  \/ \E c \in Clients : Disconnect(c)
  \/ \E o \in OriginInputs, r \in Reqs, p \in PlayersInputs, ok \in BOOLEAN :
       HttpCreateGame(o, r, p, ok)
  \/ \E o \in OriginInputs, r \in Reqs, id \in JoinIds : HttpJoinStart(o, r, id)
  \/ \E r \in Reqs, ok \in BOOLEAN : JoinFind(r, ok)
  \/ \E r \in Reqs, ok \in BOOLEAN : JoinSave(r, ok)
  \/ \E r \in Reqs : JoinEmit(r)

Next == NextGame \/ NextChat \/ NextCors

\* the games API with sockets connecting and joining rooms
SpecGame == Init /\ [][NextGame]_vars
\* the chat relay
SpecChat == Init /\ [][NextChat]_vars
\* the chat relay with client-dated payloads
SpecChatDates == Init /\ [][NextChatDates]_vars
\* the games API behind the cors middleware
SpecCors == Init /\ [][NextCors]_vars
\* sockets joining a room with a long stored history
SpecHistory == InitHistory /\ [][NextHistory]_vars
\* the whole server
Spec == Init /\ [][Next]_vars
====
